---- MODULE Spec2Model ----
(***************************************************************************)
(* Model of the Kalshi weather trading bot:                                *)
(*   - TradeExecutor.calculate_position_size  (src/src/trading/trader.py)  *)
(*   - run_trading_loop                       (src/src/trading/trader.py)  *)
(*   - WalkForwardBacktester._simulate_trades                              *)
(*                                   (src/src/backtesting/backtester.py)   *)
(*                                                                         *)
(* Units.  Probabilities are whole percent points (0..100), so the float   *)
(* probability p of the source is prob/100 and fair_value = p*100 is the   *)
(* integer prob.  Money is integer cents.  The simulator's prices are      *)
(* floats in the source; they are modelled in tenths of a cent ("dc").     *)
(***************************************************************************)
EXTENDS Integers, Sequences, FiniteSets, TLC

\* ------------------------------------------------------------------ config
\* src/config.py:15
MINIMUM_EDGE_CENTS == 7
\* src/config.py:18, MAX_RISK_PER_TRADE = 0.05, in percent points
MAX_RISK_PER_TRADE == 5
\* src/src/trading/trader.py:225
minimum_edge_for_trading == 3
\* src/src/trading/trader.py:250, "minimum position size for demo"
MinimumLot == 10
\* src/src/trading/trader.py:154 and 163, the live loop's own edge threshold
LoopEdgeThreshold == 3
\* src/src/trading/trader.py:159 and 168, the live loop's own minimum lot
LoopMinimumLot == 10
\* src/src/trading/trader.py:34, balance_response.get('balance', 1000000)
DefaultBalance == 1000000
\* src/src/backtesting/backtester.py:134, MINIMUM_EDGE_FOR_TESTING = 0.1 cent
MINIMUM_EDGE_FOR_TESTING == 1

Max(a, b) == IF a >= b THEN a ELSE b
Min(a, b) == IF a <= b THEN a ELSE b

\* ------------------------------------------- TradeExecutor, pure functions
\* trader.py:237: kelly_fraction = (odds*p - (1-p)) / odds with odds = 1.0,
\* in percent points.
KellyRaw(probability) == 2 * probability - 100

\* variant: the fraction is kept non-negative but not capped
KellyNoCeiling(probability) == Max(0, KellyRaw(probability))
\* trader.py:240: max(0, min(kelly_fraction, MAX_RISK_PER_TRADE))
KellyClamped(probability) == Max(0, Min(KellyRaw(probability), MAX_RISK_PER_TRADE))

\* variant: the position value in cents is taken as the number of contracts
PositionSizeUnscaled(portfolio_balance, probability) ==
    (portfolio_balance * KellyClamped(probability)) \div 100
\* trader.py:243-246: position_value = balance * kelly; int(position_value/100).
\* balance is in cents and >= 0, kelly in percent points.
PositionSizeRaw(portfolio_balance, probability) ==
    (portfolio_balance * KellyClamped(probability)) \div 10000

\* trader.py:227: the edge gate of calculate_position_size
EdgeTooSmall(edge_cents) == edge_cents < minimum_edge_for_trading

\* trader.py:249-252: the minimum-lot floor and the final max(0, .)
ApplyLotFloor(position_size, edge_cents) ==
    IF position_size = 0 /\ edge_cents >= minimum_edge_for_trading
    THEN MinimumLot
    ELSE Max(0, position_size)

\* variant: sizing reserves the position's value out of the balance
BalanceLessPosition(portfolio_balance, position_size) ==
    Max(0, portfolio_balance - position_size * 100)
\* trader.py:210-252: calculate_position_size reads self.portfolio_balance
\* and assigns nothing; the balance the executor holds after the call
BalanceAfterSizing(portfolio_balance, position_size) == portfolio_balance

\* trader.py:227-240: the Kelly fraction the call sizes with (none is
\* computed when the edge gate returns early)
KellyUsed(edge_cents, probability) ==
    IF EdgeTooSmall(edge_cents) THEN 0 ELSE KellyClamped(probability)

\* trader.py:210-252
calculate_position_size(portfolio_balance, edge_cents, probability) ==
    IF EdgeTooSmall(edge_cents)
    THEN 0
    ELSE ApplyLotFloor(PositionSizeRaw(portfolio_balance, probability), edge_cents)

\* ----------------------------------------------- live decision (one quote)
\* trader.py:138-139
YesEdge(fair_value, yes_price) == fair_value - yes_price
NoEdge(fair_value, no_price) == (100 - fair_value) - no_price

\* trader.py:158-159 and 167-168: the loop's own minimum lot
LoopLotFloor(position_size, edge) ==
    IF position_size = 0 /\ edge >= LoopEdgeThreshold
    THEN LoopMinimumLot
    ELSE position_size

NoDecision == [side |-> "NONE", count |-> 0, price |-> 0]

\* variant: the order is built whenever an edge qualifies, on the computed
\* size, without the minimum lots and without the test position_size > 0
LiveDecisionUnguarded(portfolio_balance, prediction_prob, yes_price, no_price) ==
    IF YesEdge(prediction_prob, yes_price) >= LoopEdgeThreshold
    THEN [side |-> "YES", price |-> yes_price,
          count |-> PositionSizeRaw(portfolio_balance, prediction_prob)]
    ELSE IF NoEdge(prediction_prob, no_price) >= LoopEdgeThreshold
    THEN [side |-> "NO", price |-> no_price,
          count |-> PositionSizeRaw(portfolio_balance, 100 - prediction_prob)]
    ELSE NoDecision

\* trader.py:154-173: the side chosen and the order the loop would place for
\* one active quote.  fair_value = prediction_prob * 100 (trader.py:105).
LiveDecision(portfolio_balance, prediction_prob, yes_price, no_price) ==
    LET fair_value == prediction_prob
        yes_edge == YesEdge(fair_value, yes_price)
        no_edge == NoEdge(fair_value, no_price)
    IN  IF yes_edge >= LoopEdgeThreshold
        THEN LET size == LoopLotFloor(
                     calculate_position_size(portfolio_balance, yes_edge,
                                             prediction_prob), yes_edge)
             IN  IF size > 0
                 THEN [side |-> "YES", count |-> size, price |-> yes_price]
                 ELSE NoDecision
        ELSE IF no_edge >= LoopEdgeThreshold
        THEN LET size == LoopLotFloor(
                     calculate_position_size(portfolio_balance, no_edge,
                                             100 - prediction_prob), no_edge)
             IN  IF size > 0
                 THEN [side |-> "NO", count |-> size, price |-> no_price]
                 ELSE NoDecision
        ELSE NoDecision

\* ------------------------------------------ simulator decision (one row)
\* backtester.py:130-131, prices in dc
EdgeToBuy(fair_value_dc, market_ask_price) == fair_value_dc - market_ask_price
EdgeToSell(fair_value_dc, market_bid_price) == market_bid_price - fair_value_dc

\* backtester.py:146-168: the side traded and the number of contracts, which
\* the source computes as the float capital*MAX_RISK_PER_TRADE / (price/100);
\* it is kept here as the exact fraction num/den (price in dc, so
\* price/100 dollars = price_dc/1000).
SimDecision(capital, fair_value_dc, market_ask_price, market_bid_price) ==
    IF EdgeToBuy(fair_value_dc, market_ask_price) >= MINIMUM_EDGE_FOR_TESTING
    THEN [side |-> "YES", num |-> capital * MAX_RISK_PER_TRADE * 10,
          den |-> market_ask_price, price |-> market_ask_price]
    ELSE IF EdgeToSell(fair_value_dc, market_bid_price) >= MINIMUM_EDGE_FOR_TESTING
    THEN [side |-> "NO", num |-> capital * MAX_RISK_PER_TRADE * 10,
          den |-> 1000 - market_bid_price, price |-> 1000 - market_bid_price]
    ELSE [side |-> "NONE", num |-> 0, den |-> 1, price |-> 0]

\* ------------------------------------------------------------------ bounds
\* max_iterations is 1000 in the source (trader.py:44); the loop's control
\* flow does not depend on its value, and it is scaled down here.
max_iterations == 2
\* the largest number of markets one scan returns
MaxMarkets == 2
\* the largest number of requests one scan's pagination makes
MaxPages == 2

\* --------------------------------------------------------- collaborators
\* what client.get_balance() may answer (trader.py:33): a response without a
\* 'balance' key, or a balance in cents
BalanceResponses == {[has_balance |-> FALSE, balance |-> 0],
                     [has_balance |-> TRUE, balance |-> 1000],
                     [has_balance |-> TRUE, balance |-> 100000]}
\* what predictor.predict may return, in percent points (trader.py:98)
Predictions == {30, 50, 70}
\* the placeholder prediction 0.5 (trader.py:102)
PlaceholderPrediction == 50
\* market_info of a market (trader.py:119-128): the bids the loop reads,
\* where a missing yes_bid reads as 0 and a missing no_bid as 100 (the first
\* quote), and the asks of the same book (yes_ask = 100 - no_bid,
\* no_ask = 100 - yes_bid), which the loop does not read
Quotes == {[yes_bid |-> 0, no_bid |-> 100, yes_ask |-> 100, no_ask |-> 100],
           [yes_bid |-> 45, no_bid |-> 26, yes_ask |-> 74, no_ask |-> 55],
           [yes_bid |-> 66, no_bid |-> 26, yes_ask |-> 74, no_ask |-> 34],
           [yes_bid |-> 66, no_bid |-> 45, yes_ask |-> 55, no_ask |-> 34],
           [yes_bid |-> 68, no_bid |-> 29, yes_ask |-> 71, no_ask |-> 32]}
\* market_info.get('active', False) (trader.py:122): the flag is true, false
\* or not reported
ActiveFlags == {"true", "false", "missing"}

\* ------------------------------------------------------------------- state
VARIABLES
    pc,                \* position of run_trading_loop
    balance_status,    \* how startup obtained the bankroll
    portfolio_balance, \* TradeExecutor.portfolio_balance
    iteration,         \* trader.py:43
    markets,           \* number of markets of the current scan, tickers 1..markets
    mi,                \* index of the market being processed (0: none yet)
    finished,          \* markets of this iteration whose processing ended
    prediction_prob,   \* trader.py:98/102
    pending,           \* the decision whose order is about to be placed
    orders,            \* client.place_order calls of the current iteration
    trade_result,      \* what the last place_trade returned
    bodies,            \* iteration bodies begun (trader.py:51)
    sleeps,            \* time.sleep calls that returned
    last_sleep,        \* which sleep ended the previous iteration
    interrupt_at,      \* where a KeyboardInterrupt was delivered
    quote,             \* the market_info the pending decision was taken on
    forecast,          \* where prediction_prob came from: model or placeholder
    last_outcome,      \* how the market that has just been left ended
    discovery,         \* the venue's answers to the scan that has just ended
    sz_pc,             \* position of the sizing harness
    sz_edge, sz_prob, sz_balance, sz_yes_price, sz_no_price,
    sz_count,          \* result of calculate_position_size
    sz_kelly,          \* kelly_fraction of that call after trader.py:240
    sz_count2,         \* result of a second, identical call
    live_dec, sim_dec, \* results of the live and the simulated decision
    bt_pc,             \* position of run_walk_forward_backtest
    bt_dates,          \* the dates of features_df, in days
    train_window_days, test_window_days,
    train_end_date, test_end_date,  \* backtester.py:54-55
    windows,           \* the test ranges of the current run, in order
    bt_columns,        \* which of the date and target columns features_df has
    bt_repeated,       \* the dates that occur on two rows of features_df
    bt_todo,           \* dates of the rows _simulate_trades has yet to visit
    initial_capital,   \* WalkForwardBacktester.initial_capital
    capital,           \* WalkForwardBacktester.capital
    trade_log,         \* WalkForwardBacktester.trade_log
    trades_df,         \* the frame handed to the evaluation (results_df)
    bt_result,         \* what the run, or _calculate_metrics, returned
    sim_prob,          \* the forecast handed to _simulate_trades directly
    second_log,        \* trade_log of a second backtester, called likewise
    second_capital     \* capital of that second backtester

loop_vars == <<pc, balance_status, portfolio_balance, iteration, markets, mi,
               finished, prediction_prob, pending, orders, trade_result,
               bodies, sleeps, last_sleep, interrupt_at, quote, forecast,
               last_outcome, discovery>>
sz_vars == <<sz_pc, sz_edge, sz_prob, sz_balance, sz_yes_price, sz_no_price,
             sz_count, sz_kelly, sz_count2, live_dec, sim_dec>>
sim_vars == <<sim_prob, second_log, second_capital>>
bt_vars == <<bt_pc, bt_dates, train_window_days, test_window_days,
             train_end_date, test_end_date, windows, bt_columns, bt_repeated,
             bt_todo, initial_capital, capital, trade_log, trades_df,
             bt_result, sim_vars>>
vars == <<loop_vars, sz_vars, bt_vars>>

NoSimDecision == [side |-> "NONE", num |-> 0, den |-> 1, price |-> 0]
NoQuote == [yes_bid |-> 0, no_bid |-> 0, yes_ask |-> 0, no_ask |-> 0,
            active |-> "none"]

NoDiscovery == <<>>

LoopIdle ==
    /\ pc = "idle" /\ balance_status = "none" /\ portfolio_balance = 0
    /\ iteration = 0 /\ markets = 0 /\ mi = 0 /\ finished = 0
    /\ prediction_prob = 0 /\ pending = NoDecision /\ orders = <<>>
    /\ trade_result = "none" /\ bodies = 0 /\ sleeps = 0
    /\ last_sleep = "none" /\ interrupt_at = "none"
    /\ quote = NoQuote /\ forecast = "none" /\ last_outcome = "none"
    /\ discovery = NoDiscovery

SizingIdle ==
    /\ sz_pc = "idle" /\ sz_edge = 0 /\ sz_prob = 0 /\ sz_balance = 0
    /\ sz_yes_price = 0 /\ sz_no_price = 0 /\ sz_count = 0
    /\ sz_kelly = 0 /\ sz_count2 = 0
    /\ live_dec = NoDecision /\ sim_dec = NoSimDecision

\* a result that carries nothing: no call has returned yet
NoResult == [message |-> "none", computed |-> FALSE, num_trades |-> 0,
             ret_num |-> 0, ret_den |-> 1, dd_num |-> 0, dd_den |-> 1,
             wins |-> 0]

BacktestIdle ==
    /\ bt_pc = "idle" /\ bt_dates = {} /\ train_window_days = 0
    /\ test_window_days = 0 /\ train_end_date = 0 /\ test_end_date = 0
    /\ windows = <<>> /\ bt_columns = "none" /\ bt_repeated = {}
    /\ bt_todo = <<>> /\ initial_capital = 0 /\ capital = 0
    /\ trade_log = <<>> /\ trades_df = <<>> /\ bt_result = NoResult
    /\ sim_prob = 0 /\ second_log = <<>> /\ second_capital = 0

\* ------------------------------------------------------- run_trading_loop
\* trader.py:22: run_trading_loop(client=None) is entered with a client or
\* without one.
Init ==
    /\ pc \in {"start", "start_noclient"}
    /\ balance_status = "none" /\ portfolio_balance = 0
    /\ iteration = 0 /\ markets = 0 /\ mi = 0 /\ finished = 0
    /\ prediction_prob = 0 /\ pending = NoDecision /\ orders = <<>>
    /\ trade_result = "none" /\ bodies = 0 /\ sleeps = 0
    /\ last_sleep = "none" /\ interrupt_at = "none"
    /\ quote = NoQuote /\ forecast = "none" /\ last_outcome = "none"
    /\ discovery = NoDiscovery
    /\ SizingIdle
    /\ BacktestIdle

\* variant: the loop is entered whether or not the bankroll was obtained
AfterStartupAlways(obtained) == "loop"
\* trader.py:26-40: where control goes after the startup block
AfterStartup(obtained) == IF obtained THEN "loop" ELSE "not_started"

\* trader.py:34: balance_response.get('balance', 1000000)
BalanceOf(response) ==
    IF response.has_balance THEN response.balance ELSE DefaultBalance

\* trader.py:26-28
StartNoClient ==
    /\ pc = "start_noclient"
    /\ pc' = AfterStartup(FALSE)
    /\ balance_status' = "noclient"
    /\ UNCHANGED <<portfolio_balance, iteration, markets, mi, finished,
                   prediction_prob, pending, orders, trade_result, bodies,
                   sleeps, last_sleep, interrupt_at>>
    /\ UNCHANGED <<quote, forecast, last_outcome>>
    /\ discovery' = NoDiscovery
    /\ UNCHANGED sz_vars
    /\ UNCHANGED bt_vars

\* trader.py:31-40, get_balance raises (or its answer is no mapping)
StartBalanceFails ==
    /\ pc = "start"
    /\ pc' = AfterStartup(FALSE)
    /\ balance_status' = "failed"
    /\ UNCHANGED <<portfolio_balance, iteration, markets, mi, finished,
                   prediction_prob, pending, orders, trade_result, bodies,
                   sleeps, last_sleep, interrupt_at>>
    /\ UNCHANGED <<quote, forecast, last_outcome>>
    /\ discovery' = NoDiscovery
    /\ UNCHANGED sz_vars
    /\ UNCHANGED bt_vars

\* trader.py:31-47, get_balance answers
StartBalance ==
    /\ pc = "start"
    /\ \E response \in BalanceResponses :
          /\ portfolio_balance' = BalanceOf(response)
          /\ balance_status' = IF response.has_balance THEN "reported"
                               ELSE "defaulted"
    /\ pc' = AfterStartup(TRUE)
    /\ UNCHANGED <<iteration, markets, mi, finished, prediction_prob, pending,
                   orders, trade_result, bodies, sleeps, last_sleep,
                   interrupt_at>>
    /\ UNCHANGED <<quote, forecast, last_outcome>>
    /\ discovery' = NoDiscovery
    /\ UNCHANGED sz_vars
    /\ UNCHANGED bt_vars

\* trader.py:49, the while test succeeds and an iteration body begins (:51)
BeginIteration ==
    /\ pc = "loop" /\ iteration < max_iterations
    /\ pc' = "scan"
    /\ bodies' = bodies + 1
    /\ markets' = 0 /\ mi' = 0 /\ finished' = 0
    /\ prediction_prob' = 0 /\ pending' = NoDecision /\ orders' = <<>>
    /\ trade_result' = "none" /\ last_sleep' = "none"
    /\ UNCHANGED <<balance_status, portfolio_balance, iteration, sleeps,
                   interrupt_at>>
    /\ quote' = NoQuote /\ forecast' = "none" /\ last_outcome' = "none"
    /\ discovery' = NoDiscovery
    /\ UNCHANGED sz_vars
    /\ UNCHANGED bt_vars

\* trader.py:49 and 193, the while test fails
StopByLimit ==
    /\ pc = "loop" /\ ~(iteration < max_iterations)
    /\ pc' = "stopped_by_limit"
    /\ UNCHANGED <<balance_status, portfolio_balance, iteration, markets, mi,
                   finished, prediction_prob, pending, orders, trade_result,
                   bodies, sleeps, last_sleep, interrupt_at>>
    /\ UNCHANGED <<quote, forecast, last_outcome>>
    /\ discovery' = NoDiscovery
    /\ UNCHANGED sz_vars
    /\ UNCHANGED bt_vars

\* kalshi_scanner.py:42-58: what one request of the pagination gets: the
\* request raises, or a page is returned, with or without Philadelphia
\* weather markets on it; more says that the page is full and carries a
\* cursor, so that another request follows
PageResponses ==
    {[error |-> TRUE, philly |-> 0, more |-> FALSE]}
        \cup {[error |-> FALSE, philly |-> k, more |-> m] :
                  k \in 0..1, m \in BOOLEAN}
\* the venue's answers to the requests of one scan, up to the request that
\* ends the pagination
VenueScripts ==
    {script \in UNION {[1..n -> PageResponses] : n \in 1..MaxPages} :
        /\ \A i \in 1..Len(script) :
              (i < Len(script)) <=> (~script[i].error /\ script[i].more)
        /\ Cardinality({i \in 1..Len(script) : script[i].philly = 1})
              <= MaxMarkets}

\* kalshi_scanner.py:41-67: the pagination from request i on, and the
\* number of fetched markets that pass the Philadelphia weather filter; a
\* request that raises ends the pagination (:48-50)
RECURSIVE FetchPages(_, _)
FetchPages(script, i) ==
    IF i > Len(script) THEN 0
    ELSE IF script[i].error THEN 0
    ELSE script[i].philly
            + (IF script[i].more THEN FetchPages(script, i + 1) ELSE 0)

\* variant: a request that raises discards what was fetched before it
ScanDiscardsOnFailure(script) ==
    IF \E i \in 1..Len(script) : script[i].error
    THEN 0 ELSE FetchPages(script, 1)
\* kalshi_scanner.py:27-80: the number of markets scan_weather_markets
\* returns
scan_weather_markets(script) == FetchPages(script, 1)

\* trader.py:54-62: scan_weather_markets returns nothing, or returns n
\* markets, the first of which is taken up; or the scan raises on
\* something other than a request (a response that is no dict at
\* kalshi_scanner.py:52, the export at :72-78)
Scan ==
    /\ pc = "scan"
    /\ \/ /\ pc' = "sleep_backoff"
          /\ discovery' = NoDiscovery
          /\ UNCHANGED <<markets, mi>>
       \/ \E script \in VenueScripts :
             /\ discovery' = script
             /\ IF scan_weather_markets(script) = 0
                THEN pc' = "sleep_nomarkets" /\ UNCHANGED <<markets, mi>>
                ELSE /\ markets' = scan_weather_markets(script)
                     /\ mi' = 1 /\ pc' = "download"
    /\ UNCHANGED <<balance_status, portfolio_balance, iteration, finished,
                   prediction_prob, pending, orders, trade_result, bodies,
                   sleeps, last_sleep, interrupt_at>>
    /\ UNCHANGED <<quote, forecast, last_outcome>>
    /\ UNCHANGED sz_vars
    /\ UNCHANGED bt_vars

\* trader.py:62: the for loop takes the next market, or falls through to
\* the sleep at :181
NextMarketPc(i, n) == IF i < n THEN "download" ELSE "sleep"
NextMarketIndex(i, n) == IF i < n THEN i + 1 ELSE i

\* the current market's processing has ended (a continue, or the end of
\* the for body)
MarketDone(how) ==
    /\ finished' = finished + 1
    /\ pc' = NextMarketPc(mi, markets)
    /\ mi' = NextMarketIndex(mi, markets)
    /\ prediction_prob' = 0
    /\ quote' = NoQuote /\ forecast' = "none"
    /\ last_outcome' = how

\* an exception leaves the iteration body for the handler at trader.py:187
EscapeBody ==
    /\ pc' = "sleep_backoff"
    /\ last_outcome' = "none"
    /\ UNCHANGED <<mi, finished, prediction_prob, quote, forecast>>

\* trader.py:63-77: download_philly_historical_data raises, returns nothing,
\* or returns data
DownloadWeather ==
    /\ pc = "download"
    /\ \/ EscapeBody
       \/ MarketDone("no_weather")
       \/ /\ pc' = "features"
          /\ last_outcome' = "none"
          /\ UNCHANGED <<mi, finished, prediction_prob, quote, forecast>>
    /\ UNCHANGED <<balance_status, portfolio_balance, iteration, markets,
                   pending, orders, trade_result, bodies, sleeps, last_sleep,
                   interrupt_at>>
    /\ discovery' = NoDiscovery
    /\ UNCHANGED sz_vars
    /\ UNCHANGED bt_vars

\* trader.py:80-81: generate_philly_features raises or returns
GenerateFeatures ==
    /\ pc = "features"
    /\ \/ EscapeBody
       \/ /\ pc' = "predict"
          /\ UNCHANGED <<mi, finished, prediction_prob, quote, forecast,
                         last_outcome>>
    /\ UNCHANGED <<balance_status, portfolio_balance, iteration, markets,
                   pending, orders, trade_result, bodies, sleeps, last_sleep,
                   interrupt_at>>
    /\ discovery' = NoDiscovery
    /\ UNCHANGED sz_vars
    /\ UNCHANGED bt_vars

\* trader.py:84-105: a model file exists and load_model/predict raise or
\* predict; or none exists and the placeholder is used
Predict ==
    /\ pc = "predict"
    /\ \/ EscapeBody
       \/ \E p \in Predictions :
             /\ prediction_prob' = p /\ pc' = "quote"
             /\ forecast' = "model" /\ last_outcome' = "none"
             /\ UNCHANGED <<mi, finished, quote>>
       \/ /\ prediction_prob' = PlaceholderPrediction /\ pc' = "quote"
          /\ forecast' = "placeholder" /\ last_outcome' = "none"
          /\ UNCHANGED <<mi, finished, quote>>
    /\ UNCHANGED <<balance_status, portfolio_balance, iteration, markets,
                   pending, orders, trade_result, bodies, sleeps, last_sleep,
                   interrupt_at>>
    /\ discovery' = NoDiscovery
    /\ UNCHANGED sz_vars
    /\ UNCHANGED bt_vars

\* variant: a market that reports no active flag counts as active
QuoteTradableByDefault(flag) == flag # "false"
\* trader.py:122: market_info.get('active', False)
QuoteTradable(flag) == flag = "true"

\* trader.py:115-124: how a market whose quote is not traded is left
SkippedAs(flag) == IF flag = "missing" THEN "no_flag" ELSE "inactive"

\* trader.py:108-177: client.get raises (caught at :175) or the answer has
\* no 'market'; the market is not active; or it is active and the decision
\* is taken on its bids
FetchQuote ==
    /\ pc = "quote"
    /\ \/ /\ MarketDone("quote_failed")
          /\ UNCHANGED pending
       \/ \E q \in Quotes, flag \in ActiveFlags :
             IF ~QuoteTradable(flag)
             THEN MarketDone(SkippedAs(flag)) /\ UNCHANGED pending
             ELSE LET d == LiveDecision(portfolio_balance, prediction_prob,
                                        q.yes_bid, q.no_bid)
                  IN  IF d.side = "NONE"
                      THEN MarketDone("no_edge") /\ UNCHANGED pending
                      ELSE /\ pending' = d /\ pc' = "order"
                           /\ quote' = [yes_bid |-> q.yes_bid,
                                        no_bid |-> q.no_bid,
                                        yes_ask |-> q.yes_ask,
                                        no_ask |-> q.no_ask,
                                        active |-> flag]
                           /\ UNCHANGED <<mi, finished, prediction_prob,
                                          forecast, last_outcome>>
    /\ UNCHANGED <<balance_status, portfolio_balance, iteration, markets,
                   orders, trade_result, bodies, sleeps, last_sleep,
                   interrupt_at>>
    /\ discovery' = NoDiscovery
    /\ UNCHANGED sz_vars
    /\ UNCHANGED bt_vars

\* variant: place_trade lets the exception of place_order through
PlaceTradeReraises(raised) == IF raised THEN "raised" ELSE "ok"
\* trader.py:269-282: what place_trade returns when place_order answers and
\* when it raises
PlaceTradeReturn(raised) == IF raised THEN "error" ELSE "ok"

\* the ask of the side of a decision in a quote
AskOf(q, side) == IF side = "YES" THEN q.yes_ask ELSE q.no_ask

\* variant: an accepted order's cost is taken off the bankroll
BalanceLessOrderCost(balance, order, raised) ==
    IF raised THEN balance ELSE balance - order.count * order.price
\* trader.py:254-282: place_trade assigns no attribute of the executor, and
\* the loop never reads the balance again (trader.py:33-37)
BalanceAfterTrade(balance, order, raised) == balance

\* variant: place_trade submits the order a second time when the first
\* submission raised
SubmissionsWithRetry(order, raised) ==
    IF raised THEN <<order, order>> ELSE <<order>>
\* trader.py:269-282: place_trade posts the order once, whether the post
\* answers or raises
Submissions(order, raised) == <<order>>

\* trader.py:162/171 and 254-282: place_trade calls client.place_order, which
\* answers or raises; place_trade catches the exception and returns an
\* error, and the for loop goes on
PlaceTrade ==
    /\ pc = "order"
    /\ \E raised \in BOOLEAN :
          /\ orders' = orders \o Submissions(
                             [ticker |-> mi, side |-> pending.side,
                              count |-> pending.count,
                              price |-> pending.price,
                              ask |-> AskOf(quote, pending.side),
                              active |-> quote.active,
                              forecast |-> forecast], raised)
          /\ trade_result' = PlaceTradeReturn(raised)
          /\ portfolio_balance' =
                BalanceAfterTrade(portfolio_balance, pending, raised)
          /\ MarketDone(IF raised THEN "order_failed" ELSE "ordered")
    /\ pending' = NoDecision
    /\ UNCHANGED <<balance_status, iteration, markets,
                   bodies, sleeps, last_sleep, interrupt_at>>
    /\ discovery' = NoDiscovery
    /\ UNCHANGED sz_vars
    /\ UNCHANGED bt_vars

\* variants: the count is not advanced, or advanced twice
IterationStays(i) == i
IterationTwice(i) == i + 2
\* trader.py:58, 182 and 190: iteration += 1 on each of the three paths
IterationAfterNoMarkets(i) == i + 1
IterationAfterBody(i) == i + 1
IterationAfterBackoff(i) == i + 1

\* trader.py:57-59: time.sleep(60) returns
SleepNoMarkets ==
    /\ pc = "sleep_nomarkets"
    /\ sleeps' = sleeps + 1 /\ last_sleep' = "nomarkets"
    /\ iteration' = IterationAfterNoMarkets(iteration)
    /\ pc' = "loop"
    /\ UNCHANGED <<balance_status, portfolio_balance, markets, mi, finished,
                   prediction_prob, pending, orders, trade_result, bodies,
                   interrupt_at>>
    /\ UNCHANGED <<quote, forecast, last_outcome>>
    /\ discovery' = NoDiscovery
    /\ UNCHANGED sz_vars
    /\ UNCHANGED bt_vars

\* trader.py:180-182: time.sleep(300) returns
SleepAfterBody ==
    /\ pc = "sleep"
    /\ sleeps' = sleeps + 1 /\ last_sleep' = "body"
    /\ iteration' = IterationAfterBody(iteration)
    /\ pc' = "loop"
    /\ UNCHANGED <<balance_status, portfolio_balance, markets, mi, finished,
                   prediction_prob, pending, orders, trade_result, bodies,
                   interrupt_at>>
    /\ last_outcome' = "none"
    /\ UNCHANGED <<quote, forecast>>
    /\ discovery' = NoDiscovery
    /\ UNCHANGED sz_vars
    /\ UNCHANGED bt_vars

\* trader.py:187-191: the handler's time.sleep(60) returns
SleepBackoff ==
    /\ pc = "sleep_backoff"
    /\ sleeps' = sleeps + 1 /\ last_sleep' = "backoff"
    /\ iteration' = IterationAfterBackoff(iteration)
    /\ pc' = "loop"
    /\ UNCHANGED <<balance_status, portfolio_balance, markets, mi, finished,
                   prediction_prob, pending, orders, trade_result, bodies,
                   interrupt_at>>
    /\ UNCHANGED <<quote, forecast, last_outcome>>
    /\ discovery' = NoDiscovery
    /\ UNCHANGED sz_vars
    /\ UNCHANGED bt_vars

\* the positions inside the try block of trader.py:50-182
TryStates == {"scan", "download", "features", "predict", "quote", "order",
              "sleep", "sleep_nomarkets"}
\* the positions at which one market is being processed
MarketStates == {"download", "features", "predict", "quote", "order"}

\* trader.py:184-186: a KeyboardInterrupt raised inside the try block is
\* caught and breaks the loop; raised in the handler of :187-191 or in the
\* startup block (whose except names Exception) it leaves run_trading_loop
AfterInterrupt(at) ==
    IF at \in TryStates THEN "stopped_by_user" ELSE "interrupt_raised"

Interrupt ==
    /\ pc \in TryStates \cup {"sleep_backoff", "start"}
    /\ interrupt_at' = pc
    /\ pc' = AfterInterrupt(pc)
    /\ UNCHANGED <<balance_status, portfolio_balance, iteration, markets, mi,
                   finished, prediction_prob, pending, orders, trade_result,
                   bodies, sleeps, last_sleep>>
    /\ last_outcome' = "none"
    /\ UNCHANGED <<quote, forecast>>
    /\ discovery' = NoDiscovery
    /\ UNCHANGED sz_vars
    /\ UNCHANGED bt_vars

LoopStep ==
    \/ StartNoClient \/ StartBalanceFails \/ StartBalance
    \/ BeginIteration \/ StopByLimit \/ Scan
    \/ DownloadWeather \/ GenerateFeatures \/ Predict \/ FetchQuote
    \/ PlaceTrade
    \/ SleepNoMarkets \/ SleepAfterBody \/ SleepBackoff

Next == LoopStep \/ Interrupt

Spec == Init /\ [][Next]_vars

\* the loop when no interrupt arrives and every call and sleep returns
NoInterruptSpec == Init /\ [][LoopStep]_vars /\ WF_vars(LoopStep)

\* ------------------------------------------- the pure functions, by input
\* inputs of calculate_position_size and of the two decisions
SzEdges == {-2, 2, 3, 5, 6, 7, 10}
SzProbs == {0, 40, 50, 51, 70, 100}
SzBalances == {0, 1000, 30000, 100000}
SzYesPrices == {60, 69}
SzNoPrices == {29, 60}

SizingInit ==
    /\ LoopIdle
    /\ BacktestIdle
    /\ sz_pc = "input"
    /\ sz_edge \in SzEdges /\ sz_prob \in SzProbs /\ sz_balance \in SzBalances
    /\ sz_yes_price \in SzYesPrices /\ sz_no_price \in SzNoPrices
    /\ sz_count = 0 /\ sz_kelly = 0 /\ sz_count2 = 0
    /\ live_dec = NoDecision /\ sim_dec = NoSimDecision

\* one call of TradeExecutor.calculate_position_size (trader.py:210-252) on
\* an executor holding sz_balance
CallPositionSize ==
    /\ sz_pc = "input"
    /\ sz_count' = calculate_position_size(sz_balance, sz_edge, sz_prob)
    /\ sz_kelly' = KellyUsed(sz_edge, sz_prob)
    /\ sz_balance' = BalanceAfterSizing(sz_balance, sz_count')
    /\ sz_pc' = "sized"
    /\ UNCHANGED <<sz_edge, sz_prob, sz_yes_price, sz_no_price, sz_count2,
                   live_dec, sim_dec>>
    /\ UNCHANGED loop_vars
    /\ UNCHANGED bt_vars

\* a second call with the same (edge, probability) on the same executor
CallPositionSizeAgain ==
    /\ sz_pc = "sized"
    /\ sz_count2' = calculate_position_size(sz_balance, sz_edge, sz_prob)
    /\ sz_balance' = BalanceAfterSizing(sz_balance, sz_count2')
    /\ sz_pc' = "resized"
    /\ UNCHANGED <<sz_edge, sz_prob, sz_yes_price, sz_no_price, sz_count,
                   sz_kelly, live_dec, sim_dec>>
    /\ UNCHANGED loop_vars
    /\ UNCHANGED bt_vars

\* the live decision (trader.py:137-173) and the simulated one
\* (backtester.py:126-168) on the same fair value, side prices, win
\* probability and bankroll: the simulator's ask is the YES price and its
\* bid is 100 minus the NO price
DecideBoth ==
    /\ sz_pc = "sized"
    /\ live_dec' = LiveDecision(sz_balance, sz_prob, sz_yes_price, sz_no_price)
    /\ sim_dec' = SimDecision(sz_balance, sz_prob * 10, sz_yes_price * 10,
                              (100 - sz_no_price) * 10)
    /\ sz_pc' = "decided"
    /\ UNCHANGED <<sz_edge, sz_prob, sz_balance, sz_yes_price, sz_no_price,
                   sz_count, sz_kelly, sz_count2>>
    /\ UNCHANGED loop_vars
    /\ UNCHANGED bt_vars

SizingNext == CallPositionSize \/ CallPositionSizeAgain \/ DecideBoth

SizingSpec == SizingInit /\ [][SizingNext]_vars

\* ------------------------------------------ run_walk_forward_backtest
\* Capital and P&L are floats in the source.  They are integers here, in the
\* unit initial_capital is given in; the inputs are chosen so that every
\* quotient the source takes is exact for as many trades as MaxTrades allows,
\* and no rounding enters.  Prices are in dc.

\* the dataset's dates lie in 0..MaxDay
MaxDay == 4
\* trades recorded on one backtester, over all its runs; the backtester may
\* be run any number of times
MaxTrades == 2
\* the window lengths a caller may pass (backtester.py:39-40), in days
TrainWindows == {0, 1, 2}
TestWindows == {-1, 0, 1, 2, 3}
\* backtester.py:29, the capital a backtester is constructed with
InitialCapitals == {8000}
\* backtester.py:122
ASSUMED_SPREAD_CENTS == 2
\* pandas' NaT: the minimum of an empty date column (backtester.py:53)
NaT == -100

\* one row's forecast (prob[1] * 100, in dc) and the draw of
\* np.random.normal(0, 1) at backtester.py:121 (in dc): the draw alone
\* decides whether and which side is traded
RowInputs == {[prob |-> 252, noise |-> -12],
              [prob |-> 498, noise |-> 12],
              [prob |-> 500, noise |-> 0]}
\* the target column (backtester.py:50 and 75) of the datasets considered:
\* the outcome is 1 on the odd days and 0 on the even ones
TargetOf(date) == date % 2

SetMin(S) == CHOOSE x \in S : \A y \in S : x <= y
SetMax(S) == CHOOSE x \in S : \A y \in S : y <= x

\* backtester.py:53-55 on a dataset without rows: min() is NaT and NaT plus
\* a timedelta is NaT
FirstTrainEnd(dates, window) ==
    IF dates = {} THEN NaT ELSE SetMin(dates) + window
PlusDays(d, window) == IF d = NaT THEN NaT ELSE d + window
\* backtester.py:58: test_end_date <= features_df['date'].max(); every
\* comparison with NaT is False
WhileTest(test_end, dates) ==
    dates # {} /\ test_end # NaT /\ test_end <= SetMax(dates)

\* backtester.py:62: the rows with train_end_date < date <= test_end_date
TestRows(dates, train_end, test_end) ==
    {d \in dates : train_end < d /\ d <= test_end}

\* backtester.py:46 and 114: the rows of the test range in ascending date
\* order, a repeated date once for each of its two rows
RECURSIVE RowsInOrder(_, _)
RowsInOrder(dates, repeated) ==
    IF dates = {} THEN <<>>
    ELSE LET d == SetMin(dates)
         IN  (IF d \in repeated THEN <<d, d>> ELSE <<d>>)
                 \o RowsInOrder(dates \ {d}, repeated)

\* variant: the start of the test range is not advanced
TrainEndStays(train_end, window) == train_end
\* variant: the end of the test range is not advanced
TestEndStays(test_end, window) == test_end
\* backtester.py:82-83: both boundaries move by test_window_days
NextTrainEnd(train_end, window) == train_end + window
NextTestEnd(test_end, window) == test_end + window

\* backtester.py:121-124: the synthetic quote around forecast plus noise
MarketAsk(prob, noise) == prob + noise + (ASSUMED_SPREAD_CENTS * 10) \div 2
MarketBid(prob, noise) == prob + noise - (ASSUMED_SPREAD_CENTS * 10) \div 2

\* variant: a SELL is settled as won when the outcome is 1
SimPnlSellWinsOnYes(dec, actual_outcome) ==
    IF dec.side = "NONE" THEN 0
    ELSE IF actual_outcome = 1
    THEN (dec.num * (1000 - dec.price)) \div (dec.den * 1000)
    ELSE 0 - ((dec.num * dec.price) \div (dec.den * 1000))
\* backtester.py:150-153 and 162-165: contracts * (1 - price/100) on a win,
\* -contracts * (price/100) on a loss; a BUY wins when the outcome is 1, a
\* SELL when it is 0.  dec.price is the ask for a BUY and 100 - bid for a
\* SELL, contracts is dec.num/dec.den
SimPnl(dec, actual_outcome) ==
    IF dec.side = "YES"
    THEN IF actual_outcome = 1
         THEN (dec.num * (1000 - dec.price)) \div (dec.den * 1000)
         ELSE 0 - ((dec.num * dec.price) \div (dec.den * 1000))
    ELSE IF dec.side = "NO"
    THEN IF actual_outcome = 0
         THEN (dec.num * (1000 - dec.price)) \div (dec.den * 1000)
         ELSE 0 - ((dec.num * dec.price) \div (dec.den * 1000))
    ELSE 0

\* backtester.py:130-131: the edge of the side a decision trades
SimEdge(dec, prob, noise) ==
    IF dec.side = "YES" THEN EdgeToBuy(prob, MarketAsk(prob, noise))
    ELSE EdgeToSell(prob, MarketBid(prob, noise))

\* backtester.py:172-176: the entry appended for a trade.  The source keeps
\* date, capital and pnl; side, contracts (num/den), price, edge, outcome
\* and the synthetic quote are recorded beside them for the properties
\* stated about a trade.
LedgerEntry(date, new_capital, pnl, dec, edge, actual_outcome, ask, bid) ==
    [date |-> date, capital |-> new_capital, pnl |-> pnl,
     side |-> dec.side, num |-> dec.num, den |-> dec.den,
     price |-> dec.price, edge |-> edge, actual |-> actual_outcome,
     ask |-> ask, bid |-> bid]

\* the forecasts handed to _simulate_trades in a direct call (prob[1] * 100,
\* in dc), 1 and 99 per cent included
SimProbs == {10, 252, 498, 500, 990}
\* the draws of np.random.normal(0, 1) at backtester.py:121 considered for
\* such a forecast (in dc): none, or 1.2 cents to the side that is traded
SimNoises(prob) ==
    IF prob \in {10, 252} THEN {-12, 0}
    ELSE IF prob \in {498, 990} THEN {0, 12}
    ELSE {0}

\* variant: a losing trade costs the number of contracts, the price left out
SimulateTradesRowLosesContracts(cap, log, date, prob, noise) ==
    LET dec == SimDecision(cap, prob, MarketAsk(prob, noise),
                           MarketBid(prob, noise))
        won == SimPnl(dec, TargetOf(date))
        pnl == IF won < 0 THEN 0 - (dec.num \div dec.den) ELSE won
    IN  IF dec.side = "NONE"
        THEN [capital |-> cap, trade_log |-> log]
        ELSE [capital |-> cap + pnl,
              trade_log |-> Append(log,
                  LedgerEntry(date, cap + pnl, pnl, dec,
                              SimEdge(dec, prob, noise), TargetOf(date),
                              MarketAsk(prob, noise),
                              MarketBid(prob, noise)))]
\* backtester.py:114-176: what one row of _simulate_trades makes of the
\* capital and the ledger, for the row's date, forecast and noise draw: a
\* trade changes the capital and appends an entry
SimulateTradesRow(cap, log, date, prob, noise) ==
    LET actual_outcome == TargetOf(date)
        dec == SimDecision(cap, prob, MarketAsk(prob, noise),
                           MarketBid(prob, noise))
        pnl == SimPnl(dec, actual_outcome)
    IN  IF dec.side = "NONE"
        THEN [capital |-> cap, trade_log |-> log]
        ELSE [capital |-> cap + pnl,
              trade_log |-> Append(log,
                  LedgerEntry(date, cap + pnl, pnl, dec,
                              SimEdge(dec, prob, noise), actual_outcome,
                              MarketAsk(prob, noise),
                              MarketBid(prob, noise)))]

\* ------------------------------------------------- performance evaluation
\* a result that is a message only (backtester.py:92 and 181)
MessageOnly(text) == [message |-> text, computed |-> FALSE, num_trades |-> 0,
                      ret_num |-> 0, ret_den |-> 1, dd_num |-> 0,
                      dd_den |-> 1, wins |-> 0]

\* variant: the frame is never taken to be empty
ResultsNeverEmpty(df) == FALSE
\* backtester.py:89 and 180: DataFrame.empty
ResultsEmpty(df) == df = <<>>

\* backtester.py:184: the initial capital followed by the capital column
Equity(initial, df) ==
    <<initial>> \o [i \in 1..Len(df) |-> df[i].capital]

\* variant: the peak is the first value of the series throughout
RunningMaxIsFirst(equity, i) == equity[1]
\* backtester.py:190: equity.cummax() at position i
RunningMax(equity, i) == SetMax({equity[j] : j \in 1..i})

Abs(x) == IF x < 0 THEN 0 - x ELSE x

\* backtester.py:191-192: the position where (equity - running_max) /
\* running_max is least; the fractions are compared by cross-multiplying,
\* the running maxima being positive
MinDrawdownAt(equity) ==
    CHOOSE i \in 1..Len(equity) :
        \A j \in 1..Len(equity) :
            (equity[i] - RunningMax(equity, i)) * RunningMax(equity, j)
                <= (equity[j] - RunningMax(equity, j)) * RunningMax(equity, i)

\* backtester.py:178-203.  total_return_pct is 100 * ret_num / ret_den,
\* max_drawdown_pct is 100 * dd_num / dd_den, win_rate_pct is
\* 100 * wins / num_trades; the fractions are kept exact.  The Sharpe ratio
\* (:195-199) needs a standard deviation and is not represented.
calculate_metrics(initial, df) ==
    IF ResultsEmpty(df)
    THEN MessageOnly("No trades were made.")
    ELSE LET equity == Equity(initial, df)
             i == MinDrawdownAt(equity)
         IN  [message |-> "", computed |-> TRUE,
              num_trades |-> Len(df),
              ret_num |-> equity[Len(equity)] - initial,
              ret_den |-> initial,
              dd_num |-> Abs(equity[i] - RunningMax(equity, i)),
              dd_den |-> RunningMax(equity, i),
              wins |-> Cardinality({k \in 1..Len(df) : df[k].pnl > 0})]

\* backtester.py:86-105: what the run returns for the ledger it collected
RunResult(initial, df) ==
    IF ResultsEmpty(df)
    THEN MessageOnly("No trades were made during backtesting.")
    ELSE calculate_metrics(initial, df)

\* frames a caller may hand to _calculate_metrics directly: the capital
\* column, the P&L column being the differences
CapitalSeries == {<<>>, <<11000, 9000, 9500>>, <<9000, 11000, 9500>>,
                  <<11000, 12000>>, <<9000, 8000, 8500>>, <<10000, 10000>>,
                  <<12000, 6000, 9000, 3000>>}
FrameOf(initial, caps) ==
    IF caps = <<>> THEN <<>> ELSE
    [i \in 1..Len(caps) |->
        [date |-> i, capital |-> caps[i],
         pnl |-> caps[i] - (IF i = 1 THEN initial ELSE caps[i - 1]),
         side |-> "YES", num |-> 0, den |-> 1, price |-> 0, edge |-> 0,
         actual |-> 0, ask |-> 0, bid |-> 0]]
\* the initial capital of the backtester of those direct calls
\* (backtester.py:29, the default)
DefaultInitialCapital == 10000

\* ------------------------------------------------------- backtest actions
\* a new backtester (backtester.py:29-34) and the arguments of its runs: a
\* dataset (with or without rows, with or without its two columns) and the
\* two window lengths
RunSetup ==
    /\ bt_pc = "start"
    /\ bt_dates \in SUBSET (0..MaxDay)
    /\ bt_repeated \in {{}} \cup {{SetMax(bt_dates \cup {0})} \cap bt_dates}
    /\ bt_columns \in {"date_target", "no_date", "no_target"}
    /\ train_window_days \in TrainWindows
    /\ test_window_days \in TestWindows
    /\ initial_capital \in InitialCapitals
    /\ capital = initial_capital
    /\ trades_df = <<>>
    /\ sim_prob = 0 /\ second_capital = 0

\* a new backtester and a frame for a direct call of _calculate_metrics
MetricsSetup ==
    /\ bt_pc = "metrics"
    /\ bt_dates = {} /\ bt_repeated = {} /\ bt_columns = "none"
    /\ train_window_days = 0 /\ test_window_days = 0
    /\ initial_capital = DefaultInitialCapital
    /\ capital = initial_capital
    /\ trades_df \in {FrameOf(initial_capital, caps) : caps \in CapitalSeries}
    /\ sim_prob = 0 /\ second_capital = 0

\* two new backtesters (backtester.py:29-34) with the same initial capital,
\* and the arguments of a direct call of _simulate_trades on each: one date,
\* its outcome and its forecast
SimSetup ==
    /\ bt_pc = "sim"
    /\ bt_dates \in {{0}, {1}} /\ bt_repeated = {} /\ bt_columns = "none"
    /\ train_window_days = 0 /\ test_window_days = 0
    /\ initial_capital \in InitialCapitals
    /\ capital = initial_capital
    /\ trades_df = <<>>
    /\ sim_prob \in SimProbs /\ second_capital = initial_capital

BacktestInit ==
    /\ LoopIdle /\ SizingIdle
    /\ RunSetup \/ MetricsSetup \/ SimSetup
    /\ train_end_date = 0 /\ test_end_date = 0
    /\ windows = <<>> /\ bt_todo = <<>> /\ trade_log = <<>>
    /\ bt_result = NoResult /\ second_log = <<>>

\* backtester.py:43-57: the capital is reset, the frame is sorted by its
\* date column (KeyError without one), the target column is looked up
\* (IndexError without one) and the first window is anchored at the
\* earliest date
BtStartRun ==
    /\ bt_pc = "start"
    /\ capital' = initial_capital
    /\ windows' = <<>> /\ bt_result' = NoResult /\ trades_df' = <<>>
    /\ IF bt_columns = "no_date"
       THEN bt_pc' = "KeyError" /\ UNCHANGED <<train_end_date, test_end_date>>
       ELSE IF bt_columns = "no_target"
       THEN bt_pc' = "IndexError"
            /\ UNCHANGED <<train_end_date, test_end_date>>
       ELSE /\ bt_pc' = "loop"
            /\ train_end_date' = FirstTrainEnd(bt_dates, train_window_days)
            /\ test_end_date' =
                  PlusDays(FirstTrainEnd(bt_dates, train_window_days),
                           test_window_days)
    /\ UNCHANGED <<bt_dates, train_window_days, test_window_days, bt_columns,
                   bt_repeated, bt_todo, initial_capital, trade_log>>
    /\ UNCHANGED sim_vars
    /\ UNCHANGED loop_vars
    /\ UNCHANGED sz_vars

\* backtester.py:58-80: the while test holds and the test range selects
\* rows, which are handed to _simulate_trades
BtWindow ==
    /\ bt_pc = "loop"
    /\ WhileTest(test_end_date, bt_dates)
    /\ TestRows(bt_dates, train_end_date, test_end_date) # {}
    /\ windows' = Append(windows, [test_start |-> train_end_date,
                                   test_end |-> test_end_date])
    /\ bt_todo' = RowsInOrder(
                      TestRows(bt_dates, train_end_date, test_end_date),
                      bt_repeated)
    /\ bt_pc' = "simulate"
    /\ UNCHANGED <<bt_dates, train_window_days, test_window_days,
                   train_end_date, test_end_date, bt_columns, bt_repeated,
                   initial_capital, capital, trade_log, trades_df,
                   bt_result>>
    /\ UNCHANGED sim_vars
    /\ UNCHANGED loop_vars
    /\ UNCHANGED sz_vars

\* backtester.py:114-176: one row of _simulate_trades.  The forecast and
\* the noise of the row are drawn here; a trade changes the capital and
\* appends to the ledger
SimulateRow ==
    /\ bt_pc = "simulate" /\ bt_todo # <<>>
    /\ \E inp \in RowInputs :
          LET r == SimulateTradesRow(capital, trade_log, Head(bt_todo),
                                     inp.prob, inp.noise)
          IN  /\ Len(r.trade_log) <= MaxTrades
              /\ capital' = r.capital
              /\ trade_log' = r.trade_log
    /\ bt_todo' = Tail(bt_todo)
    /\ UNCHANGED <<bt_pc, bt_dates, train_window_days, test_window_days,
                   train_end_date, test_end_date, windows, bt_columns,
                   bt_repeated, initial_capital, trades_df, bt_result>>
    /\ UNCHANGED sim_vars
    /\ UNCHANGED loop_vars
    /\ UNCHANGED sz_vars

\* backtester.py:82-84: _simulate_trades has returned, the window advances
BtAdvance ==
    /\ bt_pc = "simulate" /\ bt_todo = <<>>
    /\ train_end_date' = NextTrainEnd(train_end_date, test_window_days)
    /\ test_end_date' = NextTestEnd(test_end_date, test_window_days)
    /\ bt_pc' = "loop"
    /\ UNCHANGED <<bt_dates, train_window_days, test_window_days, windows,
                   bt_columns, bt_repeated, bt_todo, initial_capital,
                   capital, trade_log, trades_df, bt_result>>
    /\ UNCHANGED sim_vars
    /\ UNCHANGED loop_vars
    /\ UNCHANGED sz_vars

\* backtester.py:86-105: the ledger becomes results_df and the run returns
\* the no-trades message or the metrics
Evaluate ==
    /\ trades_df' = trade_log
    /\ bt_result' = RunResult(initial_capital, trade_log)
    /\ bt_pc' = "done"
    /\ UNCHANGED <<bt_dates, train_window_days, test_window_days,
                   train_end_date, test_end_date, windows, bt_columns,
                   bt_repeated, bt_todo, initial_capital, capital, trade_log>>
    /\ UNCHANGED sim_vars
    /\ UNCHANGED loop_vars
    /\ UNCHANGED sz_vars

\* backtester.py:65-66: the test range selects no row, break
BtBreakEmpty ==
    /\ bt_pc = "loop"
    /\ WhileTest(test_end_date, bt_dates)
    /\ TestRows(bt_dates, train_end_date, test_end_date) = {}
    /\ Evaluate

\* backtester.py:58: the while test fails
BtLoopExit ==
    /\ bt_pc = "loop"
    /\ ~WhileTest(test_end_date, bt_dates)
    /\ Evaluate

\* the caller runs the backtest again on the same backtester, with the same
\* arguments
BtRunAgain ==
    /\ bt_pc = "done"
    /\ bt_pc' = "start"
    /\ UNCHANGED <<bt_dates, train_window_days, test_window_days,
                   train_end_date, test_end_date, windows, bt_columns,
                   bt_repeated, bt_todo, initial_capital, capital, trade_log,
                   trades_df, bt_result>>
    /\ UNCHANGED sim_vars
    /\ UNCHANGED loop_vars
    /\ UNCHANGED sz_vars

\* backtester.py:178-203: _calculate_metrics called on a frame
CallCalculateMetrics ==
    /\ bt_pc = "metrics"
    /\ bt_result' = calculate_metrics(initial_capital, trades_df)
    /\ bt_pc' = "metrics_done"
    /\ UNCHANGED <<bt_dates, train_window_days, test_window_days,
                   train_end_date, test_end_date, windows, bt_columns,
                   bt_repeated, bt_todo, initial_capital, capital, trade_log,
                   trades_df>>
    /\ UNCHANGED sim_vars
    /\ UNCHANGED loop_vars
    /\ UNCHANGED sz_vars

\* backtester.py:107-176: _simulate_trades called on the first backtester
\* with the one row; the noise is drawn in the call
CallSimulateTrades ==
    /\ bt_pc = "sim"
    /\ \E noise \in SimNoises(sim_prob) :
          LET r == SimulateTradesRow(capital, trade_log, SetMin(bt_dates),
                                     sim_prob, noise)
          IN  capital' = r.capital /\ trade_log' = r.trade_log
    /\ bt_pc' = "sim_once"
    /\ UNCHANGED <<bt_dates, train_window_days, test_window_days,
                   train_end_date, test_end_date, windows, bt_columns,
                   bt_repeated, bt_todo, initial_capital, trades_df,
                   bt_result>>
    /\ UNCHANGED sim_vars
    /\ UNCHANGED loop_vars
    /\ UNCHANGED sz_vars

\* backtester.py:107-176: the same call on the second backtester
CallSimulateTradesAgain ==
    /\ bt_pc = "sim_once"
    /\ \E noise \in SimNoises(sim_prob) :
          LET r == SimulateTradesRow(second_capital, second_log,
                                     SetMin(bt_dates), sim_prob, noise)
          IN  second_capital' = r.capital /\ second_log' = r.trade_log
    /\ bt_pc' = "sim_twice"
    /\ UNCHANGED <<bt_dates, train_window_days, test_window_days,
                   train_end_date, test_end_date, windows, bt_columns,
                   bt_repeated, bt_todo, initial_capital, capital, trade_log,
                   trades_df, bt_result, sim_prob>>
    /\ UNCHANGED loop_vars
    /\ UNCHANGED sz_vars

BacktestNext ==
    \/ BtStartRun \/ BtWindow \/ SimulateRow \/ BtAdvance \/ BtBreakEmpty
    \/ BtLoopExit \/ BtRunAgain \/ CallCalculateMetrics
    \/ CallSimulateTrades \/ CallSimulateTradesAgain

BacktestSpec == BacktestInit /\ [][BacktestNext]_vars

\* =================================================================== claims

\* C1: every position size returned by calculate_position_size keeps the
\* capital at risk at 100 cents per contract within the ceiling:
\* count * 100 <= portfolio_balance * MAX_RISK_PER_TRADE (5 percent).
C1_RiskCeiling ==
    sz_pc = "sized" => sz_count * 100 * 100 <= sz_balance * MAX_RISK_PER_TRADE

\* C2: an edge below the configured MINIMUM_EDGE_CENTS sizes to 0 contracts.
C2_BelowMinimumEdgeSizesZero ==
    (sz_pc = "sized" /\ sz_edge < MINIMUM_EDGE_CENTS) => sz_count = 0

\* the live decision and the simulated decision agree: same side, same
\* number of contracts
SameOutcome(live, sim) ==
    /\ live.side = sim.side
    /\ live.count * sim.den = sim.num

\* C3: on identical input the simulator and the live loop reach the same
\* outcome (trade or no trade, same side, same contract count).
C3_SimulatorMatchesLive ==
    sz_pc = "decided" => SameOutcome(live_dec, sim_dec)

\* C4: when a market's processing raises at any step, every later market
\* of the iteration is still processed: each iteration that found markets
\* ends with all of them processed.
C4_LaterMarketsProcessed ==
    (pc \in {"sleep", "sleep_backoff", "loop"} /\ markets > 0)
        => finished = markets

\* C5: when the bankroll cannot be obtained at startup (no client, or
\* get_balance raises) the loop does not start: no iteration body, no
\* scan, no quote, no order.
C5_NoBankrollNoLoop ==
    balance_status \in {"noclient", "failed"}
        => /\ pc = "not_started"
           /\ bodies = 0 /\ markets = 0 /\ orders = <<>> /\ sleeps = 0
C5_Witness ==
    pc = "not_started" /\ balance_status = "failed"

\* C6: when the balance response carries no balance, no default bankroll is
\* substituted and the run does not go on to trading.
C6_NoDefaultBankroll ==
    balance_status = "defaulted" => (pc = "not_started" /\ bodies = 0)

\* C7: with no interrupt and every call returning, the loop runs at most
\* max_iterations iteration bodies and eventually stops and returns.
C7_BoundedAndStops ==
    /\ [](bodies <= max_iterations)
    /\ <>(pc \in {"stopped_by_limit", "not_started"})
C7_Witness ==
    pc = "stopped_by_limit" /\ bodies = max_iterations
        /\ last_sleep = "backoff"

\* C8: between two iteration bodies there is exactly one sleep and the
\* iteration count advances by exactly one, on the failure path, the
\* no-markets path and the normal path alike.
C8_OneSleepPerIteration ==
    /\ pc = "loop" => (sleeps = iteration /\ bodies = iteration)
    /\ pc \in TryStates \cup {"sleep_backoff"}
          => (sleeps = iteration /\ bodies = iteration + 1)
C8_Witness ==
    pc = "loop" /\ last_sleep = "backoff" /\ iteration = 1 /\ sleeps = 1

\* C9: an interrupt delivered while the loop runs or sleeps stops it
\* gracefully: run_trading_loop reaches stopped-by-user and returns.
C9_InterruptStopsGracefully ==
    (interrupt_at \in TryStates \cup {"sleep_backoff"})
        => pc = "stopped_by_user"

\* C10: an interrupt that arrives while a market is being processed lets
\* that market's processing complete before the loop stops.
C10_CurrentMarketCompleted ==
    (pc = "stopped_by_user" /\ interrupt_at \in MarketStates)
        => (finished = mi /\ pending = NoDecision)

\* the orders of the current iteration placed for market t
OrdersFor(t) == {i \in 1..Len(orders) : orders[i].ticker = t}

\* C11: no order is submitted for a market whose fetched quote is not
\* active, a quote that reports no active flag included.
C11_NoOrderOnInactiveQuote ==
    /\ \A i \in 1..Len(orders) : orders[i].active = "true"
    /\ pc = "order" => quote.active = "true"
    /\ last_outcome \in {"inactive", "no_flag"} => OrdersFor(finished) = {}
C11_Witness ==
    last_outcome = "no_flag" /\ finished = 2 /\ Len(orders) = 1

\* C12: a market whose forecast cannot be obtained (no weather data, or no
\* model file to predict with) is skipped: no order is submitted for it.
C12_NoForecastNoOrder ==
    /\ \A i \in 1..Len(orders) : orders[i].forecast = "model"
    /\ last_outcome = "no_weather" => OrdersFor(finished) = {}

\* C13: when client.place_order raises, place_trade returns an error result
\* without raising and the loop goes on to the next market, or to the sleep
\* that leads to the next iteration.
C13_OrderFailureContinues ==
    last_outcome = "order_failed"
        => /\ trade_result = "error"
           /\ pc = IF finished < markets THEN "download" ELSE "sleep"
           /\ mi = IF finished < markets THEN finished + 1 ELSE finished
           /\ orders[Len(orders)].ticker = finished
C13_Witness ==
    last_outcome = "order_failed" /\ pc = "download" /\ mi = 2

\* C17: each side's edge is measured against that side's ask, and the
\* submitted order's price is that ask.
C17_OrderPricedAtAsk ==
    \A i \in 1..Len(orders) : orders[i].price = orders[i].ask

\* C19: contract_count = 0 iff side = NONE: an order is submitted exactly
\* when a side was selected, every submitted order has a count > 0, and
\* when neither side qualifies nothing is submitted.
C19_CountZeroIffNoSide ==
    /\ (pending.count = 0) <=> (pending.side = "NONE")
    /\ pc = "order" => pending.side \in {"YES", "NO"}
    /\ \A i \in 1..Len(orders) :
          orders[i].side \in {"YES", "NO"} /\ orders[i].count > 0
    /\ last_outcome = "no_edge" => OrdersFor(finished) = {}
    /\ last_outcome \in {"ordered", "order_failed"}
          => Cardinality(OrdersFor(finished)) = 1
C19_Witness ==
    /\ last_outcome = "no_edge" /\ finished = 2 /\ Len(orders) = 1
    /\ orders[1].count = LoopMinimumLot

\* C14: for every win probability the Kelly fraction used for sizing lies
\* in [0, MAX_RISK_PER_TRADE], also for win probability 1.
C14_KellyWithinCeiling ==
    sz_pc = "sized" => (0 <= sz_kelly /\ sz_kelly <= MAX_RISK_PER_TRADE)
C14_Witness ==
    sz_pc = "sized" /\ sz_prob = 100 /\ sz_edge = 10
        /\ sz_kelly = MAX_RISK_PER_TRADE

\* C15: a win probability of 0.5 or less sizes to 0 contracts, for every
\* edge and bankroll.
C15_NoKellyNoContracts ==
    (sz_pc = "sized" /\ sz_prob <= 50) => sz_count = 0

C20_WindowsContiguous ==
    /\ \A i \in 1..Len(windows) : windows[i].test_start < windows[i].test_end
    /\ \A i \in 2..Len(windows) :
          windows[i].test_start = windows[i - 1].test_end
C20_Witness ==
    Len(windows) = 2 /\ test_window_days = 2 /\ bt_pc = "done"

\* C29: when both the YES edge and the NO edge of a market meet the trading
\* threshold, the order is for the side with the larger edge, and for YES
\* when the two edges are equal.
C29_LargerEdgeWins ==
    (/\ pc = "order"
     /\ YesEdge(prediction_prob, quote.yes_bid) >= LoopEdgeThreshold
     /\ NoEdge(prediction_prob, quote.no_bid) >= LoopEdgeThreshold)
        => pending.side =
              IF YesEdge(prediction_prob, quote.yes_bid)
                    >= NoEdge(prediction_prob, quote.no_bid)
              THEN "YES" ELSE "NO"

\* C30: in one iteration at most one order is submitted for each market of
\* the scan: never one for each side, and none after a submission failed.
C30_AtMostOneOrderPerMarket ==
    /\ \A t \in 1..MaxMarkets : Cardinality(OrdersFor(t)) <= 1
    /\ Len(orders) <= finished
    /\ last_outcome = "order_failed"
          => /\ pc # "order" /\ pending = NoDecision
             /\ (mi > finished \/ pc = "sleep")
C30_Witness ==
    /\ last_outcome = "order_failed" /\ pc = "sleep" /\ markets = 2
    /\ Len(orders) = 2 /\ orders[1].side # orders[2].side

\* C21: in the ledger a run hands to the evaluation, each entry's capital is
\* the capital of the entry before it (the initial capital for the first
\* entry) plus the entry's P&L, whatever the number of runs before.
C21_LedgerCapitalConsistent ==
    bt_pc = "done"
        => \A i \in 1..Len(trades_df) :
              trades_df[i].capital =
                  (IF i = 1 THEN initial_capital
                            ELSE trades_df[i - 1].capital) + trades_df[i].pnl

\* C22: every run starts with capital equal to the initial capital and an
\* empty ledger, a second or later run on the same backtester included.
C22_RunStartsFromInitialState ==
    (bt_pc = "loop" /\ windows = <<>>)
        => capital = initial_capital /\ trade_log = <<>>

\* C23: the dates of consecutive ledger entries strictly increase.
C23_LedgerStrictlyIncreasing ==
    \A i \in 2..Len(trade_log) : trade_log[i - 1].date < trade_log[i].date

\* C24: on an empty ledger the evaluation returns the no-trades message and
\* computes no return, drawdown or win rate, and no exception is raised:
\* both at the end of a run and in a direct call of _calculate_metrics.
C24_EmptyLedgerNoTradesResult ==
    /\ (bt_pc = "done" /\ trades_df = <<>>)
          => /\ bt_result.message = "No trades were made during backtesting."
             /\ ~bt_result.computed
    /\ (bt_pc = "metrics_done" /\ trades_df = <<>>)
          => /\ bt_result.message = "No trades were made."
             /\ ~bt_result.computed
C24_Witness ==
    /\ bt_pc = "done" /\ trades_df = <<>> /\ Len(windows) = 2
    /\ bt_result.message = "No trades were made during backtesting."

\* C25: a run on a dataset without rows, or without its date or its target
\* column, does not return a result.
C25_DatasetProblemIsFatal ==
    bt_pc = "done" => bt_dates # {} /\ bt_columns = "date_target"

\* C26: every ledger entry comes from a row whose edge on the traded side
\* was at least MINIMUM_EDGE_CENTS.
C26_TradesMeetConfiguredEdge ==
    \A i \in 1..Len(trade_log) :
        trade_log[i].edge >= MINIMUM_EDGE_CENTS * 10

\* C27: max_drawdown_pct is the largest peak-to-trough decline, in percent
\* of the peak, of the series made of the initial capital and the ledger's
\* capital values: no earlier value and later value of the series decline
\* by a larger fraction, and one such pair declines by exactly that
\* fraction.  For the series 10000, 11000, 9000, 9500 it is 2000/11000,
\* 18.18 per cent.
C27_MaxDrawdownIsPeakToTrough ==
    /\ bt_result.computed =>
          LET equity == Equity(initial_capital, trades_df)
              Pairs == {p \in (1..Len(equity)) \X (1..Len(equity)) :
                           p[1] <= p[2]}
          IN  /\ \A p \in Pairs :
                    (equity[p[1]] - equity[p[2]]) * bt_result.dd_den
                        <= bt_result.dd_num * equity[p[1]]
              /\ \E p \in Pairs :
                    (equity[p[1]] - equity[p[2]]) * bt_result.dd_den
                        = bt_result.dd_num * equity[p[1]]
    /\ (/\ bt_pc = "metrics_done"
        /\ trades_df = FrameOf(10000, <<11000, 9000, 9500>>))
          => /\ bt_result.dd_num * 11000 = 2000 * bt_result.dd_den
             /\ (bt_result.dd_num * 10000) \div bt_result.dd_den = 1818
C27_Witness ==
    /\ bt_pc = "metrics_done" /\ initial_capital = 10000
    /\ trades_df = FrameOf(10000, <<11000, 9000, 9500>>)
    /\ bt_result.dd_num = 2000 /\ bt_result.dd_den = 11000

\* C28: a simulated trade of n contracts at price p realizes n * (100 - p)
\* cents when its side matches the row's outcome and -n * p cents when it
\* does not, p being the synthetic ask for YES and 100 minus the synthetic
\* bid for NO; the capital after the trade is the capital before plus that
\* P&L.  (n = num/den, p in dc, P&L in units of 100 cents.)
C28_PayoutRule ==
    [][Len(trade_log') > Len(trade_log) =>
          LET e == trade_log'[Len(trade_log')]
              matches == \/ e.side = "YES" /\ e.actual = 1
                         \/ e.side = "NO" /\ e.actual = 0
          IN  /\ Len(trade_log') = Len(trade_log) + 1
              /\ e.price = IF e.side = "YES" THEN e.ask ELSE 1000 - e.bid
              /\ e.pnl * e.den * 1000 =
                    IF matches THEN e.num * (1000 - e.price)
                               ELSE 0 - e.num * e.price
              /\ capital' = capital + e.pnl
              /\ e.capital = capital']_vars
C28_Witness ==
    /\ Len(trade_log) = 2
    /\ trade_log[1].side = "NO" /\ trade_log[1].pnl > 0
    /\ trade_log[2].side = "YES" /\ trade_log[2].pnl < 0

\* C35: once startup has set the bankroll, no step of the live loop changes
\* it: sizing, an accepted or failed order, a sleep and the advance of the
\* iteration count all leave TradeExecutor.portfolio_balance as it is.
C35_BankrollFixedAfterStartup ==
    [][pc \notin {"start", "start_noclient"}
          => portfolio_balance' = portfolio_balance]_vars
C35_Witness ==
    /\ last_outcome = "ordered" /\ bodies = 2 /\ sleeps = 1
    /\ Len(orders) = 1 /\ portfolio_balance = 100000

\* C37: a request that raises during discovery does not raise out of
\* scan_weather_markets: the scan returns the Philadelphia weather markets
\* of the pages fetched before it.  When the first request raises the loop
\* takes its no-markets path: no market, no order, one sleep, and the
\* iteration count advances.
C37_DiscoveryFailureContained ==
    /\ [](discovery # NoDiscovery =>
            /\ pc \in {"download", "sleep_nomarkets"}
            /\ markets = Cardinality({i \in 1..Len(discovery) :
                              ~discovery[i].error /\ discovery[i].philly = 1})
            /\ discovery[1].error =>
                  pc = "sleep_nomarkets" /\ markets = 0 /\ orders = <<>>)
    /\ [][(/\ discovery # NoDiscovery
           /\ discovery[1].error
           /\ interrupt_at' = interrupt_at)
              => /\ pc' = "loop"
                 /\ iteration' = iteration + 1
                 /\ sleeps' = sleeps + 1
                 /\ orders' = <<>>]_vars
C37_Witness ==
    /\ Len(discovery) = 2 /\ discovery[2].error /\ discovery[1].philly = 1
    /\ markets = 1 /\ pc = "download"

\* C31: the walk-forward loop ends after finitely many windows, whatever the
\* sign of the test window length.  With a positive length every completed
\* iteration moves test_end strictly forward and the number of windows is
\* bounded by the span of the dataset; with a zero or negative length no
\* iteration completes.  The loop is left for the evaluation as soon as
\* test_end exceeds the latest date, and only then or on an empty range.
C31_LoopEndsAfterFinitelyManyWindows ==
    /\ [][(bt_pc = "simulate" /\ bt_pc' = "loop")
              => /\ test_window_days > 0
                 /\ test_end_date' > test_end_date]_vars
    /\ [][(bt_pc = "loop" /\ bt_pc' # bt_pc /\ bt_dates # {}
              /\ test_end_date > SetMax(bt_dates))
              => bt_pc' = "done"]_vars
    /\ [](/\ test_window_days <= 0 => windows = <<>>
          /\ windows # <<>> =>
                /\ Len(windows) * test_window_days
                      <= SetMax(bt_dates) - SetMin(bt_dates)
                            - train_window_days
                /\ windows[Len(windows)].test_end <= SetMax(bt_dates)
          /\ bt_pc = "done" =>
                \/ ~WhileTest(test_end_date, bt_dates)
                \/ TestRows(bt_dates, train_end_date, test_end_date) = {})
C31_Witness ==
    /\ bt_pc = "done" /\ test_window_days = 1 /\ Len(windows) = 3
    /\ test_end_date > SetMax(bt_dates)

\* C32: when the loop, run with a positive test window length, stops at a
\* window whose test range selects no row, no row of the dataset is dated
\* after that window's test_end.
C32_NoDataLeftAtEmptyWindow ==
    (/\ bt_pc = "done"
     /\ test_window_days > 0
     /\ WhileTest(test_end_date, bt_dates)
     /\ TestRows(bt_dates, train_end_date, test_end_date) = {})
        => \A d \in bt_dates : d <= test_end_date

\* C33: every synthetic quote a simulated trade is made against has
\* bid <= ask and both within 0 to 100 cents, and the execution price is
\* above 0 and at most 100 cents (prices in dc).
C33_QuoteWithinBounds ==
    \A i \in 1..Len(trade_log) :
        /\ trade_log[i].bid <= trade_log[i].ask
        /\ 0 <= trade_log[i].bid /\ trade_log[i].ask <= 1000
        /\ 0 < trade_log[i].price /\ trade_log[i].price <= 1000

\* C34: two executions of _simulate_trades from the same capital on the
\* same date, outcome and forecast append the same ledger entries and end
\* with the same capital.
C34_SimulationDeterministic ==
    bt_pc = "sim_twice"
        => second_log = trade_log /\ second_capital = capital

\* C36: a simulated trade whose side does not match the outcome loses
\* exactly MAX_RISK_PER_TRADE per cent of the capital held before it; while
\* every execution price of the ledger lies strictly between 0 and 100
\* cents and the initial capital is positive, the capital is positive.
C36_LossIsRiskFractionOfCapital ==
    /\ [][Len(trade_log') > Len(trade_log) =>
              LET e == trade_log'[Len(trade_log')]
                  matches == \/ e.side = "YES" /\ e.actual = 1
                             \/ e.side = "NO" /\ e.actual = 0
              IN  ~matches =>
                     /\ e.pnl * 100 = 0 - MAX_RISK_PER_TRADE * capital
                     /\ capital' * 100
                           = (100 - MAX_RISK_PER_TRADE) * capital]_vars
    /\ []((/\ initial_capital > 0
           /\ \A i \in 1..Len(trade_log) :
                 0 < trade_log[i].price /\ trade_log[i].price < 1000)
              => capital > 0)
C36_Witness ==
    /\ bt_pc = "done" /\ Len(trade_log) = 2
    /\ trade_log[1].pnl < 0 /\ trade_log[2].pnl < 0
    /\ capital * 400 = initial_capital * 361

====
